---- MODULE Spec2Model ----
(* A model of lisp.py: the value model, the printer, the reader, the        *)
(* environment, nreverse and the evaluator.  Cons objects live in a heap    *)
(* (a sequence of cells, an object's identity being its index), so that     *)
(* set_car/set_cdr, sharing and Python's identity comparison are modelled.  *)
EXTENDS Integers, Sequences, FiniteSets, TLC

VARIABLES heap, envs, last, pre, src, nr, prog

vars == <<heap, envs, last, pre, src, nr, prog>>

(***************************************************************************)
(* Values.  Every value is a record of one shape: t is the Python class,   *)
(* i the integer payload (gensym id, integer value, heap address of a      *)
(* Cons), s the character payload (a symbol's name, a comment's text, the  *)
(* name of a native callable), as a sequence of one-character strings.     *)
(***************************************************************************)
nil == [t |-> "nil", i |-> 0, s |-> <<>>]

make_symbol(name) == [t |-> "sym", i |-> 0, s |-> name]

make_gensym(id) == [t |-> "gensym", i |-> id, s |-> <<>>]

make_int(n) == [t |-> "int", i |-> n, s |-> <<>>]

make_ref(p) == [t |-> "cons", i |-> p, s |-> <<>>]

make_native(name) == [t |-> "native", i |-> 0, s |-> name]

make_comment(text, id) == [t |-> "comment", i |-> id, s |-> text]

is_nil(exp) == exp.t = "nil"

is_symbol(exp) == exp.t = "sym"

is_gensym(exp) == exp.t = "gensym"

is_cons(exp) == exp.t = "cons"

symbol_name(exp) == exp.s

gensym_id(exp) == exp.i

NilName == <<"n", "i", "l">>

intern(name) == IF name = NilName THEN nil ELSE make_symbol(name)

(* eq: same class -> symbols by name, gensyms by id, anything else by       *)
(* Python's == (numbers by value, every other object by identity); two      *)
(* classes -> Python's ==, which is False.                                  *)
eq(a, b) ==
  IF a.t = b.t
  THEN IF is_symbol(a) THEN symbol_name(a) = symbol_name(b)
       ELSE IF is_gensym(a) THEN gensym_id(a) = gensym_id(b)
       ELSE a = b
  ELSE FALSE

equal(a, b) == eq(a, b)

make_bool(x) == IF x THEN intern(<<"t">>) ELSE nil

(***************************************************************************)
(* Results of operations that may raise: the heap after, the value, and    *)
(* the error ("ok" when none was raised).                                  *)
(***************************************************************************)
Ok(h, v) == [h |-> h, v |-> v, err |-> "ok"]

Err(h, e) == [h |-> h, v |-> nil, err |-> e]

(***************************************************************************)
(* Printer.  Output is a sequence of characters.                           *)
(***************************************************************************)
Digits == <<"0", "1", "2", "3", "4", "5", "6", "7", "8", "9">>

RECURSIVE NatToChars(_)
NatToChars(n) ==
  IF n < 10 THEN <<Digits[n + 1]>>
  ELSE NatToChars(n \div 10) \o <<Digits[(n % 10) + 1]>>

put_int(val) == IF val < 0 THEN <<"-">> \o NatToChars(-val) ELSE NatToChars(val)

(* render_expr / render_list.  fuel counts the Cons cells still allowed on  *)
(* the walk: an acyclic structure never visits more than Len(h) cells, so   *)
(* running out means the structure is cyclic and the printer does not end.  *)
RECURSIVE render_expr(_, _, _), render_tail(_, _, _)
render_expr(h, exp, fuel) ==
  IF is_nil(exp) THEN [err |-> "ok", out |-> NilName]
  ELSE IF is_symbol(exp) THEN [err |-> "ok", out |-> symbol_name(exp)]
  ELSE IF is_gensym(exp)
       THEN [err |-> "ok", out |-> <<"#", ":", "G">> \o put_int(gensym_id(exp))]
  ELSE IF is_cons(exp)
       THEN IF fuel = 0 THEN [err |-> "Diverges", out |-> <<>>]
            ELSE LET hd == render_expr(h, h[exp.i].a, fuel - 1)
                 IN IF hd.err # "ok" THEN hd
                    ELSE LET tl == render_tail(h, h[exp.i].b, fuel - 1)
                         IN IF tl.err # "ok" THEN tl
                            ELSE [err |-> "ok",
                                  out |-> <<"(">> \o hd.out \o tl.out \o <<")">>]
  ELSE [err |-> "CannotPrint", out |-> <<>>]

render_tail(h, tmp, fuel) ==
  IF is_nil(tmp) THEN [err |-> "ok", out |-> <<>>]
  ELSE IF is_cons(tmp)
       THEN IF fuel = 0 THEN [err |-> "Diverges", out |-> <<>>]
            ELSE LET hd == render_expr(h, h[tmp.i].a, fuel - 1)
                 IN IF hd.err # "ok" THEN hd
                    ELSE LET tl == render_tail(h, h[tmp.i].b, fuel - 1)
                         IN IF tl.err # "ok" THEN tl
                            ELSE [err |-> "ok", out |-> <<" ">> \o hd.out \o tl.out]
  ELSE LET at == render_expr(h, tmp, fuel)
       IN IF at.err # "ok" THEN at
          ELSE [err |-> "ok", out |-> <<" ", ".", " ">> \o at.out]

repr_expr(h, exp) == render_expr(h, exp, Len(h) + 1)

(* The error a make_error(text + repr_expr(exp)) call raises: the one of    *)
(* kind `kind`, unless building its message already raised.                 *)
error_after(kind, text) == IF text.err = "ok" THEN kind ELSE text.err

error_with(kind, h, exp) == error_after(kind, repr_expr(h, exp))

(***************************************************************************)
(* Cons cells.                                                             *)
(***************************************************************************)
cons(h, a, b) == Ok(Append(h, [a |-> a, b |-> b]), make_ref(Len(h) + 1))

car(h, exp) ==
  IF ~is_cons(exp) THEN Err(h, error_with("NotAPair", h, exp)) ELSE Ok(h, h[exp.i].a)

cdr(h, exp) ==
  IF ~is_cons(exp) THEN Err(h, error_with("NotAPair", h, exp)) ELSE Ok(h, h[exp.i].b)

(* Assigning .a or .b of an object that is no Cons (parse_list does so to   *)
(* nil) sets an attribute no car/cdr ever reads: the heap is unchanged.     *)
set_car(h, exp, val) == IF is_cons(exp) THEN [h EXCEPT ![exp.i].a = val] ELSE h

set_cdr(h, exp, val) == IF is_cons(exp) THEN [h EXCEPT ![exp.i].b = val] ELSE h

(***************************************************************************)
(* Reader.  The stream is the text and a position; peek yields End (the    *)
(* falsy sentinel 0 of the source) when the text is exhausted.             *)
(***************************************************************************)
End == "<end>"

peek(text, pos) == IF pos < Len(text) THEN text[pos + 1] ELSE End

at_end(text, pos) == peek(text, pos) = End

is_ws(ch) == ch # End /\ ch \in {" ", "\n", "\t"}

is_comment_start(ch) == ch = ";"

is_comment_part(ch) == ch # End /\ ch # "\n"

is_symbol_start(ch) == ch # End /\ ~is_ws(ch) /\ ch \notin {"\"", "(", ")", ";", "'"}

is_symbol_part(ch) == is_symbol_start(ch)

DefaultOpts == [read_comments |-> FALSE, read_quote |-> TRUE]

RECURSIVE skip_ws(_, _)
skip_ws(text, pos) == IF is_ws(peek(text, pos)) THEN skip_ws(text, pos + 1) ELSE pos

RECURSIVE skip_comment_part(_, _)
skip_comment_part(text, pos) ==
  IF is_comment_part(peek(text, pos)) THEN skip_comment_part(text, pos + 1) ELSE pos

skip_comment(text, pos) ==
  IF is_comment_start(peek(text, pos)) THEN skip_comment_part(text, pos + 1) ELSE pos

RECURSIVE skip_junk(_, _, _)
skip_junk(text, pos, opts) ==
  IF skip_ws(text, pos) # pos THEN skip_junk(text, skip_ws(text, pos), opts)
  ELSE IF ~opts.read_comments /\ skip_comment(text, pos) # pos
       THEN skip_junk(text, skip_comment(text, pos), opts)
       ELSE pos

(* The end of the lexeme that starts at pos. *)
RECURSIVE lexeme_end(_, _)
lexeme_end(text, pos) ==
  IF is_symbol_part(peek(text, pos)) THEN lexeme_end(text, pos + 1) ELSE pos

is_digit(ch) == \E k \in 1..10 : Digits[k] = ch

digit_val(ch) == (CHOOSE k \in 1..10 : Digits[k] = ch) - 1

(* re.match("^-?[0-9]+$", lexeme) *)
is_int_lexeme(lex) ==
  LET body == IF lex # <<>> /\ lex[1] = "-" THEN Tail(lex) ELSE lex
  IN body # <<>> /\ \A k \in 1..Len(body) : is_digit(body[k])

RECURSIVE digits_val(_)
digits_val(ds) ==
  IF ds = <<>> THEN 0
  ELSE 10 * digits_val(SubSeq(ds, 1, Len(ds) - 1)) + digit_val(ds[Len(ds)])

py_int(lex) == IF lex[1] = "-" THEN 0 - digits_val(Tail(lex)) ELSE digits_val(lex)

QuoteName == <<"q", "u", "o", "t", "e">>

(* A reader result: heap, value, error, the position reached, and (when it  *)
(* failed) how many parse_list calls were open.                             *)
ROk(h, v, pos) == [h |-> h, v |-> v, err |-> "ok", pos |-> pos, depth |-> 0]

RErr(h, e, pos, depth) == [h |-> h, v |-> nil, err |-> e, pos |-> pos, depth |-> depth]

RECURSIVE parse_expr(_, _, _, _, _), parse_list(_, _, _, _, _),
          parse_list_loop(_, _, _, _, _, _, _)
parse_expr(h, text, pos0, opts, depth) ==
  LET pos == skip_junk(text, pos0, opts)
      ch == peek(text, pos)
  IN IF opts.read_comments /\ ch = ";"
     THEN LET stop == skip_comment_part(text, pos)
          IN ROk(h, make_comment(SubSeq(text, pos + 1, stop), pos + 1),
                 IF peek(text, stop) # End THEN stop + 1 ELSE stop)
     ELSE IF ch = "(" THEN parse_list(h, text, pos, opts, depth)
     ELSE IF opts.read_quote /\ ch = "'"
          THEN LET inner == parse_expr(h, text, pos + 1, opts, depth)
               IN IF inner.err # "ok" THEN inner
                  ELSE LET c1 == cons(inner.h, inner.v, nil)
                           c2 == cons(c1.h, intern(QuoteName), c1.v)
                       IN ROk(c2.h, c2.v, inner.pos)
     ELSE IF is_symbol_start(ch)
          THEN LET stop == lexeme_end(text, pos)
                   lexeme == SubSeq(text, pos + 1, stop)
               IN IF is_int_lexeme(lexeme) THEN ROk(h, make_int(py_int(lexeme)), stop)
                  ELSE ROk(h, intern(lexeme), stop)
     ELSE RErr(h, "UnexpectedChar", pos, depth)

parse_list(h, text, pos, opts, depth) ==
  IF peek(text, pos) # "(" THEN RErr(h, "TypeError", pos, depth)
  ELSE parse_list_loop(h, text, pos + 1, opts, depth + 1, nil, nil)

parse_list_loop(h, text, pos0, opts, depth, head, tail) ==
  LET pos == skip_junk(text, pos0, opts)
  IN IF peek(text, pos) = End THEN RErr(h, "UnexpectedEof", pos, depth)
     ELSE IF peek(text, pos) = ")" THEN ROk(h, head, pos + 1)
     ELSE LET exp == parse_expr(h, text, pos, opts, depth)
          IN IF exp.err # "ok" THEN exp
             ELSE IF eq(exp.v, intern(<<".">>))
                  THEN LET tl == parse_expr(exp.h, text, exp.pos, opts, depth)
                       IN IF tl.err # "ok" THEN tl
                          ELSE LET h1 == set_cdr(tl.h, tail, tl.v)
                                   stop == skip_junk(text, tl.pos, opts)
                               IN IF peek(text, stop) # ")"
                                  THEN RErr(h1, "MissingCloseParen", stop, depth)
                                  ELSE ROk(h1, head, stop + 1)
                  ELSE LET next == cons(exp.h, exp.v, nil)
                       IN IF is_nil(tail)
                          THEN parse_list_loop(next.h, text, exp.pos, opts, depth,
                                               next.v, next.v)
                          ELSE parse_list_loop(set_cdr(next.h, tail, next.v), text,
                                               exp.pos, opts, depth, head, next.v)

read_one_from_string(h, text, opts) == parse_expr(h, text, 0, opts, 0)

(***************************************************************************)
(* Environment: a chain of frames ((vars . vals) . outer).                 *)
(***************************************************************************)
make_env(h, outer) ==
  LET pair == cons(h, nil, nil)
  IN cons(pair.h, pair.v, outer)

env_outer(h, env) == cdr(h, env)

(* set_cdr(pair, cons(val, cdr(pair))) *)
env_push_vals(h, pair, val, oldvals) ==
  IF oldvals.err # "ok" THEN oldvals
  ELSE LET c == cons(h, val, oldvals.v)
       IN Ok(set_cdr(c.h, pair, c.v), nil)

(* set_car(pair, cons(var, car(pair))) *)
env_push_vars(h, pair, var, val, oldvars) ==
  IF oldvars.err # "ok" THEN oldvars
  ELSE LET c == cons(h, var, oldvars.v)
           h1 == set_car(c.h, pair, c.v)
       IN env_push_vals(h1, pair, val, cdr(h1, pair))

(* pair = car(env) *)
env_push_pair(h, pair, var, val) ==
  IF pair.err # "ok" THEN pair ELSE env_push_vars(h, pair.v, var, val, car(h, pair.v))

env_push(h, env, var, val) == env_push_pair(h, car(h, env), var, val)

(* The while loop of env_find_local; car and cdr of a Cons are read from    *)
(* its cell, of anything else they raise.                                   *)
RECURSIVE find_local_loop(_, _, _, _, _)
find_local_loop(h, vs, vl, var, fuel) ==
  IF is_nil(vs) THEN Ok(h, nil)
  ELSE IF fuel = 0 THEN Err(h, "Diverges")
  ELSE IF ~is_cons(vs) THEN car(h, vs)
  ELSE IF eq(h[vs.i].a, var) THEN Ok(h, vl)
  ELSE IF ~is_cons(vl) THEN cdr(h, vl)
  ELSE find_local_loop(h, h[vs.i].b, h[vl.i].b, var, fuel - 1)

env_find_local(h, env, var) ==
  IF ~is_cons(env) THEN car(h, env)
  ELSE LET pair == h[env.i].a
       IN IF ~is_cons(pair) THEN car(h, pair)
          ELSE find_local_loop(h, h[pair.i].a, h[pair.i].b, var, Len(h) + 1)

(* The while loop of env_find_global, and its body once env_find_local has  *)
(* returned iter.                                                           *)
RECURSIVE find_global_loop(_, _, _, _)
find_global_iter(h, env, var, fuel, iter) ==
  IF iter.err # "ok" THEN iter
  ELSE IF is_nil(iter.v) THEN find_global_loop(h, env_outer(h, env).v, var, fuel - 1)
  ELSE iter

find_global_loop(h, env, var, fuel) ==
  IF is_nil(env) THEN Ok(h, nil)
  ELSE IF fuel = 0 THEN Err(h, "Diverges")
  ELSE find_global_iter(h, env, var, fuel, env_find_local(h, env, var))

env_find_global(h, env, var) == find_global_loop(h, env, var, Len(h) + 1)

(* env_def once the lookup has returned vals *)
env_def_found(h, env, var, val, vals) ==
  IF vals.err # "ok" THEN vals
  ELSE IF is_nil(vals.v) THEN env_push(h, env, var, val)
  ELSE Ok(set_car(h, vals.v, val), nil)

(* env_def looking the variable up through the whole chain: a define that   *)
(* overwrites the binding of an enclosing frame instead of shadowing it.    *)
env_def_global(h, env, var, val) ==
  env_def_found(h, env, var, val, env_find_global(h, env, var))

env_def(h, env, var, val) ==
  env_def_found(h, env, var, val, env_find_local(h, env, var))

(* env_del unlinking the variable and leaving its value in vals. *)
env_del_unlink_vars_only(h, pair, vs, vl, prev_vars, prev_vals) ==
  IF is_nil(prev_vars) THEN Ok(set_car(h, pair, h[vs.i].b), nil)
  ELSE Ok(set_cdr(h, prev_vars, h[vs.i].b), nil)

(* The rewiring env_del does at the first match: the first set_car/set_cdr  *)
(* has happened when cdr(vals) raises.                                      *)
env_del_unlink(h, pair, vs, vl, prev_vars, prev_vals) ==
  LET h1 == IF is_nil(prev_vars) THEN set_car(h, pair, h[vs.i].b)
            ELSE set_cdr(h, prev_vars, h[vs.i].b)
  IN IF ~is_cons(vl) THEN Err(h1, cdr(h1, vl).err)
     ELSE IF is_nil(prev_vars) THEN Ok(set_cdr(h1, pair, h1[vl.i].b), nil)
          ELSE Ok(set_cdr(h1, prev_vals, h1[vl.i].b), nil)

RECURSIVE env_del_loop(_, _, _, _, _, _, _, _)
env_del_loop(h, pair, vs, vl, prev_vars, prev_vals, var, fuel) ==
  IF is_nil(vs) THEN Err(h, error_with("CannotRemove", h, var))
  ELSE IF fuel = 0 THEN Err(h, "Diverges")
  ELSE IF ~is_cons(vs) THEN car(h, vs)
  ELSE IF eq(h[vs.i].a, var) THEN env_del_unlink(h, pair, vs, vl, prev_vars, prev_vals)
  ELSE IF ~is_cons(vl) THEN cdr(h, vl)
  ELSE env_del_loop(h, pair, h[vs.i].b, h[vl.i].b, vs, vl, var, fuel - 1)

env_del(h, env, var) ==
  IF ~is_cons(env) THEN car(h, env)
  ELSE LET pair == h[env.i].a
       IN IF ~is_cons(pair) THEN car(h, pair)
          ELSE env_del_loop(h, pair, h[pair.i].a, h[pair.i].b, nil, nil, var, Len(h) + 1)

(* env_set once the lookup has returned vals *)
env_set_found(h, var, val, vals) ==
  IF vals.err # "ok" THEN vals
  ELSE IF is_nil(vals.v) THEN Err(h, error_with("Unbound", h, var))
  ELSE Ok(set_car(h, vals.v, val), nil)

env_set(h, env, var, val) == env_set_found(h, var, val, env_find_global(h, env, var))

(* env_get once the lookup has returned iter *)
env_get_found(h, var, iter) ==
  IF iter.err # "ok" THEN iter
  ELSE IF is_nil(iter.v) THEN Err(h, error_with("Unbound", h, var))
  ELSE car(h, iter.v)

env_get(h, env, var) == env_get_found(h, var, env_find_global(h, env, var))

(* env_dbind: the while loop over the parameter structure is the recursion  *)
(* on its tail; each element is bound by the nested call.                   *)
RECURSIVE dbind_loop(_, _, _, _, _)
dbind_rest(env, vs, vl, fuel, r) ==
  IF r.err # "ok" THEN r
  ELSE dbind_loop(r.h, env, r.h[vs.i].b, r.h[vl.i].b, fuel - 1)

dbind_loop(h, env, vs, vl, fuel) ==
  IF is_nil(vs) THEN Ok(h, nil)
  ELSE IF is_cons(vs)
       THEN IF fuel = 0 THEN Err(h, "Diverges")
            ELSE IF ~is_cons(vl) THEN car(h, vl)
            ELSE dbind_rest(env, vs, vl, fuel,
                            dbind_loop(h, env, h[vs.i].a, h[vl.i].a, fuel - 1))
  ELSE env_def(h, env, vs, vl)

env_dbind(h, env, vs, vl) == dbind_loop(h, env, vs, vl, Len(h) + 1)

(***************************************************************************)
(* List helpers.                                                           *)
(***************************************************************************)
RECURSIVE make_list(_, _)
make_list(h, args) ==
  IF args = <<>> THEN Ok(h, nil)
  ELSE LET rest == make_list(h, Tail(args))
       IN cons(rest.h, Head(args), rest.v)

(* The elements of a proper list, as a sequence; Improper when the chain    *)
(* does not end in nil (it ends in another atom, or is cyclic).             *)
Improper == <<[t |-> "improper", i |-> 0, s |-> <<>>]>>

RECURSIVE list_elems(_, _, _)
list_elems(h, x, fuel) ==
  IF is_nil(x) THEN <<>>
  ELSE IF ~is_cons(x) \/ fuel = 0 THEN Improper
  ELSE LET rest == list_elems(h, h[x.i].b, fuel - 1)
       IN IF rest = Improper THEN rest ELSE <<h[x.i].a>> \o rest

elems(h, x) == list_elems(h, x, Len(h) + 1)

is_proper(h, x) == elems(h, x) # Improper

(***************************************************************************)
(* nreverse, one loop iteration at a time.  A run is the record of its     *)
(* locals and its place: "call" (entered), "loop1" (the reversing loop),   *)
(* "loop2" (the loop over the terminator of an improper list), "done"      *)
(* (returned ret), "error" (raised err).                                   *)
(***************************************************************************)
nrev_enter(list) ==
  [pc |-> "call", list |-> list, prev |-> nil, expr |-> nil, next |-> nil,
   iter |-> nil, ret |-> nil, err |-> "ok"]

nrev_call(h, st) ==
  IF is_nil(st.list) THEN [h |-> h, st |-> [st EXCEPT !.pc = "done", !.ret = st.list]]
  ELSE [h |-> h, st |-> [st EXCEPT !.pc = "loop1", !.prev = nil, !.expr = st.list]]

nrev_loop1(h, st) ==
  IF is_cons(st.expr)
  THEN [h |-> set_cdr(h, st.expr, st.prev),
        st |-> [st EXCEPT !.next = cdr(h, st.expr).v, !.prev = st.expr,
                          !.expr = cdr(h, st.expr).v]]
  ELSE IF ~is_nil(st.expr)
       THEN [h |-> h, st |-> [st EXCEPT !.pc = "loop2", !.iter = st.prev]]
       ELSE [h |-> h, st |-> [st EXCEPT !.pc = "done", !.ret = st.prev]]

nrev_loop2(h, st) ==
  LET tl == cdr(h, st.iter)
  IN IF tl.err # "ok"
     THEN [h |-> h, st |-> [st EXCEPT !.pc = "error", !.err = tl.err]]
     ELSE IF ~is_nil(tl.v)
          THEN [h |-> set_car(h, st.iter, st.expr),
                st |-> [st EXCEPT !.next = car(h, st.iter).v,
                                  !.expr = car(h, st.iter).v]]
          ELSE [h |-> set_cdr(set_car(h, st.iter, st.expr), st.iter, car(h, st.iter).v),
                st |-> [st EXCEPT !.next = car(h, st.iter).v, !.pc = "done",
                                  !.ret = st.prev]]

nrev_step(h, st) ==
  IF st.pc = "call" THEN nrev_call(h, st)
  ELSE IF st.pc = "loop1" THEN nrev_loop1(h, st)
  ELSE nrev_loop2(h, st)

(* The whole call.  A run that has not returned after fuel iterations is    *)
(* in the second loop, which never advances iter: it does not return.       *)
RECURSIVE nrev_run(_, _, _)
nrev_run(h, st, fuel) ==
  IF st.pc = "done" THEN Ok(h, st.ret)
  ELSE IF st.pc = "error" THEN Err(h, st.err)
  ELSE IF fuel = 0 THEN Err(h, "Diverges")
  ELSE nrev_run(nrev_step(h, st).h, nrev_step(h, st).st, fuel - 1)

nreverse(h, list) == nrev_run(h, nrev_enter(list), 2 * Len(h) + 4)

(***************************************************************************)
(* Builtins and functions: pair-encoded records headed by the two gensyms  *)
(* made at start-up.                                                       *)
(***************************************************************************)
g_builtin_tag == make_gensym(0)

g_function_tag == make_gensym(1)

(* car and cdr of the value of a call that may have raised *)
car_of(r) == IF r.err # "ok" THEN r ELSE car(r.h, r.v)

cdr_of(r) == IF r.err # "ok" THEN r ELSE cdr(r.h, r.v)

cadr(h, exp) == car_of(cdr(h, exp))

cddr(h, exp) == cdr_of(cdr(h, exp))

cdar(h, exp) == cdr_of(car(h, exp))

caar(h, exp) == car_of(car(h, exp))

caddr(h, exp) == car_of(cddr(h, exp))

cdddr(h, exp) == cdr_of(cddr(h, exp))

cadddr(h, exp) == car_of(cdddr(h, exp))

is_op(h, exp, sym) == is_cons(exp) /\ eq(car(h, exp).v, sym)

is_named_op(h, exp, name) == is_op(h, exp, intern(name))

is_builtin(h, exp) == is_op(h, exp, g_builtin_tag)

make_builtin(h, fun) == make_list(h, <<g_builtin_tag, fun>>)

builtin_fun(h, exp) == cadr(h, exp)

make_function(h, env, args, body) ==
  LET c1 == cons(h, g_function_tag, env)
      c2 == cons(c1.h, args, body)
  IN cons(c2.h, c1.v, c2.v)

is_function(h, exp) ==
  is_cons(exp) /\ is_cons(car(h, exp).v) /\ eq(caar(h, exp).v, g_function_tag)

function_env(h, exp) == cdar(h, exp)

function_args(h, exp) == cadr(h, exp)

function_body(h, exp) == cddr(h, exp)

fn_eq == make_native(<<"e", "q">>)
fn_cons == make_native(<<"c", "o", "n", "s">>)
fn_car == make_native(<<"c", "a", "r">>)
fn_cdr == make_native(<<"c", "d", "r">>)

builtin_eq(a, b) == make_bool(eq(a, b))

(* The call of a builtin's host function with the values as positional   *)
(* arguments; a wrong number of them, or a fun that is no function, is a    *)
(* TypeError.                                                               *)
apply_native(h, fun, args) ==
  IF fun = fn_eq /\ Len(args) = 2 THEN Ok(h, builtin_eq(args[1], args[2]))
  ELSE IF fun = fn_cons /\ Len(args) = 2 THEN cons(h, args[1], args[2])
  ELSE IF fun = fn_car /\ Len(args) = 1 THEN car(h, args[1])
  ELSE IF fun = fn_cdr /\ Len(args) = 1 THEN cdr(h, args[1])
  ELSE Err(h, "TypeError")

(* env_def(env, intern(name), make_builtin(fun)), given the builtin made *)
def_builtin(env, name, b) == env_def(b.h, env, intern(name), b.v)

make_core_env(h) ==
  LET env == make_env(h, nil)
      d1 == env_def(env.h, env.v, intern(<<"t">>), intern(<<"t">>))
      d2 == def_builtin(env.v, <<"e", "q">>, make_builtin(d1.h, fn_eq))
      d3 == def_builtin(env.v, <<"c", "o", "n", "s">>, make_builtin(d2.h, fn_cons))
      d4 == def_builtin(env.v, <<"c", "a", "r">>, make_builtin(d3.h, fn_car))
      d5 == def_builtin(env.v, <<"c", "d", "r">>, make_builtin(d4.h, fn_cdr))
  IN Ok(d5.h, env.v)

(***************************************************************************)
(* Interpreter.  A result carries, besides heap, value and error, the log  *)
(* of what was done, in order: an "eval" entry for every call of eval (its *)
(* expression and environment), an "apply" entry for every call of a       *)
(* builtin's host function and a "call" entry for every function           *)
(* application (the callable, the environment the body runs in, and the    *)
(* list of argument values).  depth is the room left on the call stack:    *)
(* eval called with none left is the host's RecursionError.                *)
(***************************************************************************)
EOk(h, v, log) == [h |-> h, v |-> v, err |-> "ok", log |-> log]

EErr(h, e, log) == [h |-> h, v |-> nil, err |-> e, log |-> log]

Logged(r, log) == [h |-> r.h, v |-> r.v, err |-> r.err, log |-> log]

After(log, r) == [r EXCEPT !.log = log \o r.log]

Entry(k, exp, env, vals) ==
  [k |-> k, exp |-> exp, env |-> env, vals |-> vals, h |-> <<>>]

(* The entry of a function application keeps the heap its body starts on. *)
CallEntry(name, cenv, vals) ==
  [k |-> "call", exp |-> name, env |-> cenv.v, vals |-> vals, h |-> cenv.h]

IfName == <<"i", "f">>

LitName == <<"l", "i", "t">>

(* make_call_env with the caller's environment as the outer one: dynamic   *)
(* instead of lexical scope.                                                *)
make_call_env_dynamic(h, fenv, vs, vl, env) ==
  LET cenv == make_env(h, env)
  IN IF env_dbind(cenv.h, cenv.v, vs, vl).err # "ok"
     THEN env_dbind(cenv.h, cenv.v, vs, vl)
     ELSE Ok(env_dbind(cenv.h, cenv.v, vs, vl).h, cenv.v)

(* cenv once env_dbind(cenv, vars, vals) has returned *)
call_env_bound(cenv, bound) == IF bound.err # "ok" THEN bound ELSE Ok(bound.h, cenv)

make_call_env(h, fenv, vs, vl, env) ==
  LET denv == fenv
      cenv == make_env(h, denv)
  IN call_env_bound(cenv.v, env_dbind(cenv.h, cenv.v, vs, vl))

RECURSIVE eval(_, _, _, _), eval_list_loop(_, _, _, _, _), eval_list(_, _, _, _),
          eval_body_loop(_, _, _, _, _), eval_body(_, _, _, _), eval_cons(_, _, _, _),
          eval_if(_, _, _, _)
eval(h, exp, env, depth) ==
  LET me == <<Entry("eval", exp, env, nil)>>
  IN IF depth = 0 THEN EErr(h, "StackOverflow", me)
     ELSE IF is_nil(exp) THEN EOk(h, exp, me)
     ELSE IF is_symbol(exp) \/ is_gensym(exp) THEN Logged(env_get(h, env, exp), me)
     ELSE IF is_named_op(h, exp, QuoteName) THEN Logged(cadr(h, exp), me)
     ELSE IF is_named_op(h, exp, LitName) THEN EOk(h, exp, me)
     ELSE IF is_named_op(h, exp, IfName) THEN After(me, eval_if(h, exp, env, depth))
     ELSE IF is_cons(exp) THEN After(me, eval_cons(h, exp, env, depth))
     ELSE EErr(h, error_with("CannotEval", h, exp), me)

(* for exp in exps: ret = cons(eval(exp, env), ret) *)
eval_list_loop(h, exps, env, depth, ret) ==
  IF is_nil(exps) THEN EOk(h, ret, <<>>)
  ELSE IF ~is_cons(exps) THEN EErr(h, car(h, exps).err, <<>>)
  ELSE LET r == eval(h, h[exps.i].a, env, depth - 1)
       IN IF r.err # "ok" THEN r
          ELSE After(r.log, eval_list_loop(cons(r.h, r.v, ret).h, h[exps.i].b, env, depth,
                                           cons(r.h, r.v, ret).v))

(* eval_list returning the accumulated list as it is: last value first. *)
eval_list_unreversed(r) == r

(* return nreverse(ret) *)
eval_list_done(r) == IF r.err # "ok" THEN r ELSE Logged(nreverse(r.h, r.v), r.log)

eval_list(h, exps, env, depth) ==
  IF ~(is_nil(exps) \/ is_cons(exps)) THEN EErr(h, "TypeError", <<>>)
  ELSE eval_list_done(eval_list_loop(h, exps, env, depth, nil))

(* for stmt in body: ret = eval(stmt, env) *)
eval_body_loop(h, body, env, depth, ret) ==
  IF is_nil(body) THEN EOk(h, ret, <<>>)
  ELSE IF ~is_cons(body) THEN EErr(h, car(h, body).err, <<>>)
  ELSE LET r == eval(h, h[body.i].a, env, depth - 1)
       IN IF r.err # "ok" THEN r
          ELSE After(r.log, eval_body_loop(r.h, h[body.i].b, env, depth, r.v))

eval_body(h, body, env, depth) ==
  IF ~(is_nil(body) \/ is_cons(body)) THEN EErr(h, "TypeError", <<>>)
  ELSE eval_body_loop(h, body, env, depth, nil)

(* fun = builtin_fun(name); return fun(vals...) *)
eval_builtin(name, env, vals) ==
  IF vals.err # "ok" THEN vals
  ELSE IF builtin_fun(vals.h, name).err # "ok"
       THEN EErr(vals.h, builtin_fun(vals.h, name).err, vals.log)
       ELSE Logged(apply_native(vals.h, builtin_fun(vals.h, name).v,
                                elems(vals.h, vals.v)),
                   vals.log \o <<Entry("apply", name, env, vals.v)>>)

(* return eval_body(body, cenv) *)
eval_call(name, body, depth, vals, cenv) ==
  IF cenv.err # "ok" THEN EErr(cenv.h, cenv.err, vals.log)
  ELSE After(vals.log \o <<CallEntry(name, cenv, vals.v)>>,
             eval_body(cenv.h, body, cenv.v, depth))

(* vals = eval_list(args, env); cenv = make_call_env(fenv, vars, vals, env) *)
eval_function(name, body, fenv, env, depth, vals) ==
  IF vals.err # "ok" THEN vals
  ELSE eval_call(name, body, depth, vals,
                 make_call_env(vals.h, fenv, function_args(vals.h, name).v, vals.v, env))

(* return eval(cons(eval(name, env), args), env) *)
eval_else(h, name, args, env, depth, fn) ==
  IF fn.err # "ok" THEN fn
  ELSE After(fn.log, eval(cons(fn.h, fn.v, args).h, cons(fn.h, fn.v, args).v, env,
                          depth - 1))

eval_cons(h, exp, env, depth) ==
  LET name == h[exp.i].a
      args == h[exp.i].b
  IN IF is_builtin(h, name) THEN eval_builtin(name, env, eval_list(h, args, env, depth))
     ELSE IF is_function(h, name)
     THEN IF function_body(h, name).err # "ok"
          THEN EErr(h, function_body(h, name).err, <<>>)
          ELSE eval_function(name, function_body(h, name).v, function_env(h, name).v, env,
                             depth, eval_list(h, args, env, depth))
     ELSE eval_else(h, name, args, env, depth, eval(h, name, env, depth - 1))

(* eval_if taking the then-branch whatever the test's value. *)
eval_branch_always_then(exp, then, env, depth, tv) ==
  IF tv.err # "ok" THEN tv ELSE After(tv.log, eval(tv.h, then, env, depth - 1))

(* the branch eval_if takes once the test has been evaluated *)
eval_branch(exp, then, env, depth, tv) ==
  IF tv.err # "ok" THEN tv
  ELSE IF ~is_nil(tv.v) THEN After(tv.log, eval(tv.h, then, env, depth - 1))
  ELSE IF ~is_nil(cdddr(tv.h, exp).v)
       THEN IF cadddr(tv.h, exp).err # "ok"
            THEN EErr(tv.h, cadddr(tv.h, exp).err, tv.log)
            ELSE After(tv.log, eval(tv.h, cadddr(tv.h, exp).v, env, depth - 1))
       ELSE EOk(tv.h, nil, tv.log)

eval_if(h, exp, env, depth) ==
  IF cadr(h, exp).err # "ok" THEN EErr(h, cadr(h, exp).err, <<>>)
  ELSE IF caddr(h, exp).err # "ok" THEN EErr(h, caddr(h, exp).err, <<>>)
  ELSE eval_branch(exp, caddr(h, exp).v, env, depth,
                   eval(h, cadr(h, exp).v, env, depth - 1))

(***************************************************************************)
(* The environment API as a state machine.  envs holds every frame made;   *)
(* last is the call just made and its outcome, pre the heap before it.     *)
(***************************************************************************)
MaxCells == 4

MaxEnvs == 3

sym_a == make_symbol(<<"a">>)
sym_b == make_symbol(<<"b">>)
sym_x == make_symbol(<<"x">>)
sym_y == make_symbol(<<"y">>)

EnvVars == {sym_a, make_gensym(2), make_int(1)}

EnvVals == {sym_x, sym_y}

(* The heap the driver has built before the first call: two parameter       *)
(* structures, two value lists, an empty global frame and an empty frame    *)
(* on top of it.                                                            *)
EnvBase ==
  LET p1 == make_list(<<>>, <<sym_a, make_gensym(2)>>)
      p2 == cons(p1.h, sym_a, make_int(1))
      v1 == make_list(p2.h, <<sym_x, sym_y>>)
      v2 == make_list(v1.h, <<sym_y>>)
      e1 == make_env(v2.h, nil)
      e2 == make_env(e1.h, e1.v)
  IN [h |-> e2.h, params |-> {p1.v, p2.v, sym_a, nil}, vals |-> {v1.v, v2.v, nil},
      envs |-> <<e1.v, e2.v>>]

NoCall == [op |-> "none", env |-> nil, var |-> nil, val |-> nil, err |-> "ok",
           ret |-> nil]

Call(op, env, var, val, r) ==
  [op |-> op, env |-> env, var |-> var, val |-> val, err |-> r.err, ret |-> r.v]

EnvInit ==
  /\ heap = EnvBase.h
  /\ envs = EnvBase.envs
  /\ last = NoCall
  /\ pre = EnvBase.h
  /\ src = <<>>
  /\ nr = <<>>
  /\ prog = <<>>

Fits(r) == Len(r.h) <= Len(EnvBase.h) + MaxCells

Done(op, env, var, val, r) ==
  /\ Fits(r)
  /\ heap' = r.h
  /\ pre' = heap
  /\ last' = Call(op, env, var, val, r)
  /\ UNCHANGED <<src, nr, prog>>

MakeEnv ==
  \E outer \in {envs[k] : k \in 1..Len(envs)} \cup {nil} :
    LET r == make_env(heap, outer)
    IN /\ Len(envs) < MaxEnvs
       /\ envs' = Append(envs, r.v)
       /\ Done("make_env", outer, nil, nil, r)

EnvPush ==
  \E k \in 1..Len(envs), var \in EnvVars, val \in EnvVals :
    /\ Done("env_push", envs[k], var, val, env_push(heap, envs[k], var, val))
    /\ UNCHANGED envs

EnvDef ==
  \E k \in 1..Len(envs), var \in EnvVars, val \in EnvVals :
    /\ Done("env_def", envs[k], var, val, env_def(heap, envs[k], var, val))
    /\ UNCHANGED envs

EnvSet ==
  \E k \in 1..Len(envs), var \in EnvVars, val \in EnvVals :
    /\ Done("env_set", envs[k], var, val, env_set(heap, envs[k], var, val))
    /\ UNCHANGED envs

EnvDel ==
  \E k \in 1..Len(envs), var \in EnvVars :
    /\ Done("env_del", envs[k], var, nil, env_del(heap, envs[k], var))
    /\ UNCHANGED envs

EnvGet ==
  \E k \in 1..Len(envs), var \in EnvVars :
    /\ Done("env_get", envs[k], var, nil, env_get(heap, envs[k], var))
    /\ UNCHANGED envs

EnvDbind ==
  \E k \in 1..Len(envs), ps \in EnvBase.params, vs \in EnvBase.vals :
    /\ Done("env_dbind", envs[k], ps, vs, env_dbind(heap, envs[k], ps, vs))
    /\ UNCHANGED envs

EnvNext == MakeEnv \/ EnvPush \/ EnvDef \/ EnvSet \/ EnvDel \/ EnvGet \/ EnvDbind

SpecEnv == EnvInit /\ [][EnvNext]_vars

(***************************************************************************)
(* What the claims about the environment speak of.                         *)
(***************************************************************************)
env_vars(h, env) == h[h[env.i].a.i].a

env_vals(h, env) == h[h[env.i].a.i].b

(* The (var, value) positions of the top frame, in list order. *)
Bindings(h, env) ==
  LET vs == elems(h, env_vars(h, env))
      vl == elems(h, env_vals(h, env))
  IN [k \in 1..Len(vs) |-> <<vs[k], vl[k]>>]

BoundLocally(h, env, var) ==
  \E k \in 1..Len(Bindings(h, env)) : eq(Bindings(h, env)[k][1], var)

FirstMatch(h, env, var) ==
  CHOOSE k \in 1..Len(Bindings(h, env)) :
    /\ eq(Bindings(h, env)[k][1], var)
    /\ \A j \in 1..(k - 1) : ~eq(Bindings(h, env)[j][1], var)

(* The frames of a chain, top first. *)
RECURSIVE Chain(_, _)
Chain(h, env) == IF is_cons(env) THEN <<env>> \o Chain(h, h[env.i].b) ELSE <<>>

BoundGlobally(h, env, var) ==
  \E k \in 1..Len(Chain(h, env)) : BoundLocally(h, Chain(h, env)[k], var)

Outcome(r) == <<r.err, r.v>>

RemoveAt(seq, k) == SubSeq(seq, 1, k - 1) \o SubSeq(seq, k + 1, Len(seq))

(* The atoms a parameter structure names. *)
RECURSIVE ParamNames(_, _)
ParamNames(h, ps) ==
  IF is_nil(ps) THEN {}
  ELSE IF is_cons(ps) THEN ParamNames(h, h[ps.i].a) \cup ParamNames(h, h[ps.i].b)
  ELSE {ps}

Named(w) ==
  IF last.op = "env_dbind" THEN \E n \in ParamNames(pre, last.var) : eq(n, w)
  ELSE eq(last.var, w)

Others(h, env) == SelectSeq(Bindings(h, env), LAMBDA b : ~Named(b[1]))

(* The frames that existed before the last call. *)
OldEnvs == {envs[k] : k \in 1..Len(envs)} \ (IF last.op = "make_env" THEN {last.ret} ELSE {})

(* C6: env_def(env, var, val) makes env_get(env, var) return val, adds no   *)
(* binding to the top frame when var was already bound there, and leaves    *)
(* env_get(outer, w) as it was for every enclosing environment outer and    *)
(* every variable w, also when outer binds var itself (shadowing).          *)
C6_EnvDef ==
  (last.op = "env_def" /\ last.err = "ok") =>
    /\ Outcome(env_get(heap, last.env, last.var)) = <<"ok", last.val>>
    /\ BoundLocally(pre, last.env, last.var) =>
         /\ Len(Bindings(heap, last.env)) = Len(Bindings(pre, last.env))
         /\ Len(heap) = Len(pre)
    /\ \A k \in 2..Len(Chain(pre, last.env)), w \in EnvVars :
         Outcome(env_get(heap, Chain(pre, last.env)[k], w))
           = Outcome(env_get(pre, Chain(pre, last.env)[k], w))

(* A define of a variable the top frame already binds, while the enclosing  *)
(* frame binds the same variable to another value.                          *)
C6_Witness ==
  /\ last.op = "env_def" /\ last.err = "ok"
  /\ BoundLocally(pre, last.env, last.var)
  /\ Len(Chain(pre, last.env)) >= 2
  /\ Outcome(env_get(heap, Chain(pre, last.env)[2], last.var)) \in
       {<<"ok", v>> : v \in EnvVals \ {last.val}}

(* C7: env_get and env_set fail with the unbound-variable error exactly     *)
(* when no frame of the chain binds var under eq, env_del fails with the    *)
(* cannot-remove error exactly when the top frame does not bind var, and a  *)
(* failed call leaves the vars and vals of every frame unchanged.           *)
C7_Errors ==
  /\ last.op \in {"env_get", "env_set"} =>
       ((last.err = "Unbound") <=> ~BoundGlobally(pre, last.env, last.var))
  /\ last.op = "env_del" =>
       ((last.err = "CannotRemove") <=> ~BoundLocally(pre, last.env, last.var))
  /\ (last.op \in {"env_get", "env_set", "env_del"} /\ last.err # "ok") =>
       \A e \in OldEnvs : Bindings(heap, e) = Bindings(pre, e)

(* The same for the variables the printer can print (every variable but an  *)
(* Integer): there the statement of C7 holds.                               *)
C7_PrintableVars == (repr_expr(pre, last.var).err = "ok") => C7_Errors

(* The frames the last call may write to: none for a read or make_env, the  *)
(* frames of the chain for env_set, the top frame for the others.           *)
Touched ==
  IF last.op \in {"none", "make_env", "env_get"} THEN {}
  ELSE IF last.op = "env_set"
       THEN {Chain(pre, last.env)[k] : k \in 1..Len(Chain(pre, last.env))}
       ELSE {last.env}

(* C10: every frame's vars and vals are proper lists of equal length; a     *)
(* call changes the pairing of no variable but the ones it names; env_del   *)
(* removes exactly the first matching position of the top frame.            *)
C10_Frames ==
  /\ \A k \in 1..Len(envs) :
       /\ is_proper(heap, env_vars(heap, envs[k]))
       /\ is_proper(heap, env_vals(heap, envs[k]))
       /\ Len(elems(heap, env_vars(heap, envs[k])))
            = Len(elems(heap, env_vals(heap, envs[k])))
  /\ \A e \in OldEnvs :
       /\ Others(heap, e) = Others(pre, e)
       /\ (e \notin Touched) => Bindings(heap, e) = Bindings(pre, e)
  /\ (last.op = "env_del" /\ last.err = "ok") =>
       /\ BoundLocally(pre, last.env, last.var)
       /\ Bindings(heap, last.env)
            = RemoveAt(Bindings(pre, last.env), FirstMatch(pre, last.env, last.var))

(* A delete of a variable that is not at the head of the frame. *)
C10_Witness ==
  /\ last.op = "env_del" /\ last.err = "ok"
  /\ BoundLocally(pre, last.env, last.var)
  /\ FirstMatch(pre, last.env, last.var) = 2

(***************************************************************************)
(* The reader as a state machine: a text is typed character by character   *)
(* and then read once.                                                     *)
(***************************************************************************)
MaxLen == 5

Alphabet == {"(", ")", ".", "'", " ", "a", "1", ";", "\n"}

OptsSet == [read_comments : BOOLEAN, read_quote : BOOLEAN]

NoRead == [op |-> "none", opts |-> DefaultOpts, err |-> "ok", ret |-> nil, pos |-> 0,
           depth |-> 0]

ReadInit ==
  /\ heap = <<>>
  /\ src = <<>>
  /\ last = NoRead
  /\ envs = <<>>
  /\ pre = <<>>
  /\ nr = <<>>
  /\ prog = <<>>

Type ==
  \E ch \in Alphabet :
    /\ last.op = "none"
    /\ Len(src) < MaxLen
    /\ src' = Append(src, ch)
    /\ UNCHANGED <<heap, last, envs, pre, nr, prog>>

Read ==
  \E opts \in OptsSet :
    LET r == read_one_from_string(heap, src, opts)
    IN /\ last.op = "none"
       /\ heap' = r.h
       /\ last' = [op |-> "read", opts |-> opts, err |-> r.err, ret |-> r.v,
                   pos |-> r.pos, depth |-> r.depth]
       /\ UNCHANGED <<src, envs, pre, nr, prog>>

ReadNext == Type \/ Read

SpecRead == ReadInit /\ [][ReadNext]_vars

starts_expr(ch) == ch = "(" \/ ch = "'" \/ is_symbol_start(ch)

(* C8: with the default options, a read that fails because the stream ended *)
(* while a list was open fails with UnexpectedEof (also after a dot marker  *)
(* or a quote); MissingCloseParen is raised only where the next character   *)
(* is not a closing parenthesis; UnexpectedChar is raised only at a         *)
(* character (or the end sentinel) that starts no expression.               *)
C8_ReaderErrors ==
  (last.op = "read" /\ last.opts = DefaultOpts /\ last.err # "ok") =>
    /\ (last.depth >= 1 /\ at_end(src, last.pos)) => last.err = "UnexpectedEof"
    /\ last.err = "MissingCloseParen" => peek(src, last.pos) # ")"
    /\ last.err = "UnexpectedChar" => ~starts_expr(peek(src, last.pos))
    /\ last.err \in {"UnexpectedEof", "MissingCloseParen", "UnexpectedChar"}

(* What does hold: the three kinds are the only ones, UnexpectedEof is      *)
(* raised only at the end of the stream inside a list, and UnexpectedChar   *)
(* only where no expression starts.                                         *)
C8_Kinds ==
  (last.op = "read" /\ last.err # "ok") =>
    /\ last.err \in {"UnexpectedEof", "MissingCloseParen", "UnexpectedChar"}
    /\ last.err = "UnexpectedEof" => (last.depth >= 1 /\ at_end(src, last.pos))
    /\ last.err = "MissingCloseParen" => (last.depth >= 1 /\ peek(src, last.pos) # ")")
    /\ (last.err = "UnexpectedChar" /\ last.opts.read_quote) =>
         ~starts_expr(peek(src, last.pos))

(***************************************************************************)
(* The printer and the round trip as a state machine: expressions are      *)
(* built with cons from atoms, then printed, or printed and read back.     *)
(***************************************************************************)
MaxPairs == 2

PrintAtoms == {nil, sym_a, make_gensym(2), make_int(1)}

Built == PrintAtoms \cup {make_ref(p) : p \in 1..Len(heap)}

NoPrint == [op |-> "none", exp |-> nil, err |-> "ok", out |-> <<>>, ret |-> nil]

PrintInit ==
  /\ heap = <<>>
  /\ last = NoPrint
  /\ src = <<>>
  /\ envs = <<>>
  /\ pre = <<>>
  /\ nr = <<>>
  /\ prog = <<>>

BuildCons ==
  \E a \in Built, b \in Built :
    /\ last.op = "none"
    /\ Len(heap) < MaxPairs
    /\ heap' = cons(heap, a, b).h
    /\ UNCHANGED <<last, src, envs, pre, nr, prog>>

ReprExpr ==
  \E exp \in Built :
    LET r == repr_expr(heap, exp)
    IN /\ last.op = "none"
       /\ last' = [op |-> "repr_expr", exp |-> exp, err |-> r.err, out |-> r.out,
                   ret |-> nil]
       /\ UNCHANGED <<heap, src, envs, pre, nr, prog>>

(* read_one_from_string(repr_expr(exp)) *)
RoundTrip ==
  \E exp \in Built :
    LET p == repr_expr(heap, exp)
        r == read_one_from_string(heap, p.out, DefaultOpts)
    IN /\ last.op = "none"
       /\ pre' = heap
       /\ src' = p.out
       /\ heap' = IF p.err = "ok" THEN r.h ELSE heap
       /\ last' = [op |-> "round_trip", exp |-> exp,
                   err |-> IF p.err = "ok" THEN r.err ELSE p.err,
                   out |-> p.out, ret |-> IF p.err = "ok" THEN r.v ELSE nil]
       /\ UNCHANGED <<envs, nr, prog>>

PrintNext == BuildCons \/ ReprExpr \/ RoundTrip

SpecPrint == PrintInit /\ [][PrintNext]_vars

(* The canonical text the specification gives: nil, a symbol's name,        *)
(* #:G<id>, an integer's signed decimal, a list in parentheses with one     *)
(* space between elements and " . " before a final non-nil atom.            *)
RECURSIVE Canonical(_, _), CanonicalTail(_, _)
Canonical(h, exp) ==
  IF exp.t = "nil" THEN <<"n", "i", "l">>
  ELSE IF exp.t = "sym" THEN exp.s
  ELSE IF exp.t = "gensym" THEN <<"#", ":", "G">> \o put_int(exp.i)
  ELSE IF exp.t = "int" THEN put_int(exp.i)
  ELSE <<"(">> \o Canonical(h, h[exp.i].a) \o CanonicalTail(h, h[exp.i].b) \o <<")">>

CanonicalTail(h, tl) ==
  IF tl.t = "nil" THEN <<>>
  ELSE IF tl.t = "cons"
       THEN <<" ">> \o Canonical(h, h[tl.i].a) \o CanonicalTail(h, h[tl.i].b)
       ELSE <<" ", ".", " ">> \o Canonical(h, tl)

(* Whether exp is built only from the given classes of atoms and pairs. *)
RECURSIVE MadeOf(_, _, _)
MadeOf(h, exp, classes) ==
  IF exp.t = "cons" THEN MadeOf(h, h[exp.i].a, classes) /\ MadeOf(h, h[exp.i].b, classes)
  ELSE exp.t \in classes

(* Whether every chain of pairs in exp ends in nil. *)
RECURSIVE AllProper(_, _)
AllProper(h, exp) ==
  IF exp.t = "cons"
  THEN /\ is_proper(h, exp)
       /\ \A k \in 1..Len(elems(h, exp)) : AllProper(h, elems(h, exp)[k])
  ELSE TRUE

(* C1: for every expression built only from Nil, symbols, integers and      *)
(* proper pairs, reading its printed form succeeds with an equal result.    *)
C1_RoundTrip ==
  (/\ last.op = "round_trip"
   /\ MadeOf(pre, last.exp, {"nil", "sym", "int"})
   /\ AllProper(pre, last.exp)) =>
    (last.err = "ok" /\ equal(last.ret, last.exp))

(* What does hold of the round trip: an expression of Nil, symbols and      *)
(* proper pairs is read back as an expression that prints the same.         *)
C1_SameText ==
  (/\ last.op = "round_trip"
   /\ MadeOf(pre, last.exp, {"nil", "sym"})
   /\ AllProper(pre, last.exp)) =>
    (last.err = "ok" /\ repr_expr(heap, last.ret) = repr_expr(pre, last.exp))

(* C2: repr_expr returns the canonical text, raising nothing, for every     *)
(* (acyclic) expression of Nil, Symbol, Gensym, Integer and Pair.           *)
C2_Canonical ==
  (last.op = "repr_expr" /\ MadeOf(heap, last.exp, {"nil", "sym", "gensym", "int"})) =>
    (last.err = "ok" /\ last.out = Canonical(heap, last.exp))

(* What does hold of the printer: the same with no Integer in exp. *)
C2_NoInteger ==
  (last.op = "repr_expr" /\ MadeOf(heap, last.exp, {"nil", "sym", "gensym"})) =>
    (last.err = "ok" /\ last.out = Canonical(heap, last.exp))

(***************************************************************************)
(* nreverse as a state machine: the driver has built a list of at most     *)
(* MaxListLen elements ending in nil or in another atom, and reverses it.  *)
(***************************************************************************)
MaxListLen == 3

sym_t == make_symbol(<<"t">>)

ListElems == {sym_a, sym_b}

Terminators == {nil, sym_t, make_int(1)}

RECURSIVE make_dotted(_, _, _)
make_dotted(h, args, term) ==
  IF args = <<>> THEN Ok(h, term)
  ELSE LET rest == make_dotted(h, Tail(args), term)
       IN cons(rest.h, Head(args), rest.v)

SeqsUpTo(S, n) == UNION {[1..k -> S] : k \in 0..n}

(* prog remembers the input: its elements and its terminator. *)
NrevInit ==
  \E args \in SeqsUpTo(ListElems, MaxListLen), term \in Terminators :
    /\ heap = make_dotted(<<>>, args, term).h
    /\ nr = nrev_enter(make_dotted(<<>>, args, term).v)
    /\ prog = [args |-> args, term |-> term]
    /\ pre = heap
    /\ last = NoCall
    /\ envs = <<>>
    /\ src = <<>>

NrevStepTo(r) ==
  /\ heap' = r.h
  /\ nr' = r.st
  /\ UNCHANGED <<prog, pre, last, envs, src>>

NrevCall == nr.pc = "call" /\ NrevStepTo(nrev_call(heap, nr))

NrevLoop1 == nr.pc = "loop1" /\ NrevStepTo(nrev_loop1(heap, nr))

NrevLoop2 == nr.pc = "loop2" /\ NrevStepTo(nrev_loop2(heap, nr))

NrevNext == NrevCall \/ NrevLoop1 \/ NrevLoop2

SpecNrev == NrevInit /\ [][NrevNext]_vars

(* The scheduling of a sequential program: a call that can step, steps. *)
SpecNrevFair == SpecNrev /\ WF_vars(NrevNext)

IsImproperInput == prog.args # <<>> /\ ~is_nil(prog.term)

(* The car of the last pair of a proper list. *)
LastCar(h, x) == elems(h, x)[Len(elems(h, x))]

(* C9 (result): for an improper list, of one or more pairs and a final      *)
(* non-nil atom t, nreverse returns a proper list whose last pair's car is  *)
(* t.                                                                       *)
C9_ImproperResult ==
  (IsImproperInput /\ nr.pc = "done") =>
    (is_proper(heap, nr.ret) /\ is_cons(nr.ret) /\ LastCar(heap, nr.ret) = prog.term)

(* C9 (termination): for an improper list nreverse returns. *)
C9_ImproperTerminates == IsImproperInput => <>(nr.pc = "done")

(* What does hold: a proper list is reversed in place and returned. *)
Reverse(seq) == [k \in 1..Len(seq) |-> seq[Len(seq) + 1 - k]]

Nrev_Proper ==
  (is_nil(prog.term) /\ nr.pc = "done") => elems(heap, nr.ret) = Reverse(prog.args)

Nrev_ProperTerminates == is_nil(prog.term) => <>(nr.pc = "done")

(***************************************************************************)
(* The evaluator as a state machine.  The driver has made the core         *)
(* environment, an environment fenv that binds v, a caller's environment   *)
(* that binds v and w otherwise and names six functions closed over fenv,  *)
(* and has read a stock of expressions.  It then builds one form from the  *)
(* stock (a conditional or an application) and evaluates it.               *)
(***************************************************************************)
MaxDepth == 8

MaxArgs == 2

sym_v == make_symbol(<<"v">>)
sym_w == make_symbol(<<"w">>)

Read1(h, text) == read_one_from_string(h, text, DefaultOpts)

(* The expressions of texts, read one after the other, up to the first     *)
(* that cannot be read.                                                     *)
RECURSIVE ReadAll(_, _)
ReadAll(h, texts) ==
  IF texts = <<>> THEN [h |-> h, vs |-> <<>>]
  ELSE LET r == Read1(h, Head(texts))
       IN IF r.err # "ok" THEN [h |-> r.h, vs |-> <<>>]
          ELSE LET rest == ReadAll(r.h, Tail(texts))
               IN [h |-> rest.h, vs |-> <<r.v>> \o rest.vs]

(* make_function(fenv, params, body) of the two expressions read *)
FunOf(fenv, rs) == make_function(rs.h, fenv, rs.vs[1], rs.vs[2])

(* env_def(env, name, fn) *)
Named_fn(env, name, fn) == Ok(env_def(fn.h, env, make_symbol(name), fn.v).h, fn.v)

(* make_function(fenv, read(params), read(body)), bound to name in env *)
DefFun(h, env, fenv, name, params, body) ==
  Named_fn(env, name, FunOf(fenv, ReadAll(h, <<params, body>>)))

(* The functions of defs, defined one after the other. *)
RECURSIVE DefAll(_, _, _, _)
DefAll(h, env, fenv, defs) ==
  IF defs = <<>> THEN [h |-> h, vs |-> <<>>]
  ELSE LET d == DefFun(h, env, fenv, Head(defs).name, Head(defs).params, Head(defs).body)
       IN IF d.err # "ok" THEN [h |-> d.h, vs |-> <<>>]
          ELSE LET rest == DefAll(d.h, env, fenv, Tail(defs))
               IN [h |-> rest.h, vs |-> <<d.v>> \o rest.vs]

(* f conses its two arguments, g and h return their rest parameter, k has   *)
(* neither parameters nor body, m and n return v and w.                     *)
FunDefs ==
  << [name |-> <<"f">>, params |-> <<"(", "p", " ", "q", ")">>,
      body |-> <<"(", "(", "c", "o", "n", "s", " ", "p", " ", "q", ")", ")">>],
     [name |-> <<"g">>, params |-> <<"(", "p", " ", ".", " ", "r", ")">>,
      body |-> <<"(", "r", ")">>],
     [name |-> <<"h">>, params |-> <<"r">>, body |-> <<"(", "r", ")">>],
     [name |-> <<"k">>, params |-> <<"(", ")">>, body |-> <<"(", ")">>],
     [name |-> <<"m">>, params |-> <<"(", "p", ")">>,
      body |-> <<"(", "p", " ", "v", ")">>],
     [name |-> <<"n">>, params |-> <<"(", "p", ")">>, body |-> <<"(", "w", ")">>] >>

ArgTexts ==
  << <<"'", "a">>,
     <<"'", "b">>,
     <<"v">>,
     <<"x">>,
     <<"(", "c", "a", "r", " ", "'", "a", ")">>,
     <<"n", "i", "l">> >>

TestTexts ==
  << <<"'", "a">>,
     <<"n", "i", "l">>,
     <<"x">>,
     <<"(", "e", "q", " ", "'", "a", " ", "'", "b", ")">>,
     <<"(", "e", "q", " ", "'", "a", " ", "'", "a", ")">>,
     <<"(", "c", "a", "r", " ", "'", "a", ")">> >>

BranchTexts ==
  << <<"'", "a">>,
     <<"'", "b">>,
     <<"x">>,
     <<"(", "c", "o", "n", "s", " ", "'", "a", " ", "v", ")">> >>

HeadTexts ==
  << <<"c", "a", "r">>, <<"c", "o", "n", "s">>, <<"e", "q">>, <<"c", "d", "r">>,
     <<"f">>, <<"g">>, <<"h">>, <<"k">>, <<"m">>, <<"n">>,
     <<"x">>, <<"n", "i", "l">>,
     <<"'", "c", "o", "n", "s">> >>

EvalCore == make_core_env(<<>>)

(* fenv binds v to x; the caller's environment binds v and w to y. *)
Frames(core) ==
  LET fenv == make_env(core.h, core.v)
      d1 == env_def(fenv.h, fenv.v, sym_v, sym_x)
      cal == make_env(d1.h, core.v)
      d2 == env_def(cal.h, cal.v, sym_v, sym_y)
      d3 == env_def(d2.h, cal.v, sym_w, sym_y)
  IN [h |-> d3.h, core |-> core.v, fenv |-> fenv.v, cal |-> cal.v]

EvalFrames == Frames(EvalCore)

(* The frames, and the functions defined in the caller's environment. *)
WithFuns(fr, fns) ==
  [h |-> fns.h, core |-> fr.core, fenv |-> fr.fenv, cal |-> fr.cal, funs |-> fns.vs]

Funs(fr) == WithFuns(fr, DefAll(fr.h, fr.cal, fr.fenv, FunDefs))

EvalFuns == Funs(EvalFrames)

Part(vs, from, n) == {vs[k] : k \in (from + 1)..(from + n)}

(* The stock: arguments, tests, branches, and heads (the symbols read, the  *)
(* cons builtin itself and the functions f and g themselves).               *)
WithStock(fns, st) ==
  [h |-> st.h, core |-> fns.core, fenv |-> fns.fenv, cal |-> fns.cal,
   args |-> Part(st.vs, 0, Len(ArgTexts)),
   tests |-> Part(st.vs, Len(ArgTexts), Len(TestTexts)),
   branches |-> Part(st.vs, Len(ArgTexts) + Len(TestTexts), Len(BranchTexts)),
   heads |-> Part(st.vs, Len(ArgTexts) + Len(TestTexts) + Len(BranchTexts),
                  Len(HeadTexts))
               \cup {env_get(st.h, fns.core, intern(<<"c", "o", "n", "s">>)).v,
                     fns.funs[1], fns.funs[2]}]

Stock(fns) ==
  WithStock(fns, ReadAll(fns.h, ArgTexts \o TestTexts \o BranchTexts \o HeadTexts))

EvalBase == Stock(EvalFuns)

NoProg == [kind |-> "none", form |-> nil, env |-> nil]

NoEval == [op |-> "none", err |-> "ok", ret |-> nil, log |-> <<>>]

(* src is the stock the forms are built from, envs the environments. *)
EvalStart(b) ==
  /\ heap = b.h
  /\ prog = NoProg
  /\ last = NoEval
  /\ pre = b.h
  /\ envs = <<b.core, b.fenv, b.cal>>
  /\ src = [args |-> b.args, tests |-> b.tests, branches |-> b.branches,
            heads |-> b.heads]
  /\ nr = <<>>

EvalInit == EvalStart(EvalBase)

(* The environment a form is evaluated in: the caller's, or none. *)
EvalEnvs == {envs[3], nil}

Load(kind, items, env) ==
  /\ prog.kind = "none"
  /\ heap' = make_list(heap, items).h
  /\ prog' = [kind |-> kind, form |-> make_list(heap, items).v, env |-> env]
  /\ UNCHANGED <<last, pre, envs, src, nr>>

LoadIf2 ==
  \E test \in src.tests, then \in src.branches, env \in EvalEnvs :
    Load("if", <<intern(IfName), test, then>>, env)

LoadIf3 ==
  \E test \in src.tests, then \in src.branches, else \in src.branches \cup {nil},
     env \in EvalEnvs :
    Load("if", <<intern(IfName), test, then, else>>, env)

LoadApp ==
  \E head \in src.heads, args \in SeqsUpTo(src.args, MaxArgs), env \in EvalEnvs :
    Load("app", <<head>> \o args, env)

Evaluate ==
  LET r == eval(heap, prog.form, prog.env, MaxDepth)
  IN /\ prog.kind # "none"
     /\ last.op = "none"
     /\ pre' = heap
     /\ heap' = r.h
     /\ last' = [op |-> "eval", err |-> r.err, ret |-> r.v, log |-> r.log]
     /\ UNCHANGED <<prog, envs, src, nr>>

EvalNext == LoadIf2 \/ LoadIf3 \/ LoadApp \/ Evaluate

SpecEval == EvalInit /\ [][EvalNext]_vars


(***************************************************************************)
(* What the claims about the evaluator speak of.  The log of the          *)
(* evaluation is compared with what evaluating the parts one by one, on    *)
(* the heap each part starts on, logs.                                     *)
(***************************************************************************)
Evaluated == last.op = "eval"

FormItems == elems(pre, prog.form)

FormEntry == Entry("eval", prog.form, prog.env, nil)

(* The test of a conditional, evaluated on the heap the form was built on. *)
TestRun == eval(pre, FormItems[2], prog.env, MaxDepth - 1)

(* The branch the value of the test selects: none when it is Nil and the   *)
(* form has no else-branch.                                                 *)
Selected ==
  IF ~is_nil(TestRun.v) THEN <<FormItems[3]>>
  ELSE IF Len(FormItems) >= 4 THEN <<FormItems[4]>> ELSE <<>>

BranchRun == eval(TestRun.h, Selected[1], prog.env, MaxDepth - 1)

(* C3: eval of (if test then [else]) evaluates the test first and then     *)
(* exactly one branch: then when the test's value is not Nil, otherwise    *)
(* else when there is one, otherwise nothing, and it returns what that     *)
(* branch returned (Nil when none was evaluated).  The log holds the       *)
(* evaluation of the test, then that of the selected branch, nothing else. *)
C3_If ==
  (Evaluated /\ prog.kind = "if") =>
    IF TestRun.err # "ok"
    THEN /\ last.err = TestRun.err
         /\ last.log = <<FormEntry>> \o TestRun.log
    ELSE IF Selected = <<>>
    THEN /\ <<last.err, last.ret>> = <<"ok", nil>>
         /\ last.log = <<FormEntry>> \o TestRun.log
         /\ heap = TestRun.h
    ELSE /\ <<last.err, last.ret>> = <<BranchRun.err, BranchRun.v>>
         /\ last.log = <<FormEntry>> \o TestRun.log \o BranchRun.log
         /\ heap = BranchRun.h

(* A conditional whose test is Nil, whose then-branch would fail if it were *)
(* evaluated, and whose else-branch returns a value.                        *)
C3_Witness ==
  /\ Evaluated /\ prog.kind = "if" /\ Len(FormItems) = 4
  /\ TestRun.err = "ok" /\ is_nil(TestRun.v)
  /\ eval(TestRun.h, FormItems[3], prog.env, MaxDepth - 1).err = "Unbound"
  /\ last.err = "ok" /\ ~is_nil(last.ret)

(* The head of an application resolved to a callable: the form as it is     *)
(* when its head is a Builtin or a Function, else the form                 *)
(* (evaluated-head . args), again resolved.  depth is the room left when    *)
(* the form with the callable is evaluated.                                 *)
RECURSIVE Resolve(_, _, _, _, _)
Resolve(h, form, env, depth, log) ==
  LET me == <<Entry("eval", form, env, nil)>>
      head == h[form.i].a
      fn == eval(h, head, env, depth - 1)
  IN IF depth = 0 \/ is_named_op(h, form, QuoteName) \/ is_named_op(h, form, LitName)
        \/ is_named_op(h, form, IfName)
     THEN [ok |-> FALSE, h |-> h, fn |-> nil, log |-> log, depth |-> depth]
     ELSE IF is_builtin(h, head) \/ is_function(h, head)
     THEN [ok |-> TRUE, h |-> h, fn |-> head, log |-> log \o me, depth |-> depth]
     ELSE IF fn.err # "ok"
     THEN [ok |-> FALSE, h |-> fn.h, fn |-> nil, log |-> log, depth |-> depth]
     ELSE Resolve(Append(fn.h, [a |-> fn.v, b |-> h[form.i].b]),
                  make_ref(Len(fn.h) + 1), env, depth - 1, log \o me \o fn.log)

(* The argument expressions evaluated one by one from the left, each once, *)
(* up to the first that fails; every value takes one cell of the list of   *)
(* values.                                                                  *)
RECURSIVE ArgsInOrder(_, _, _, _, _)
ArgsInOrder(h, args, env, depth, ret) ==
  IF args = <<>> THEN [h |-> h, err |-> "ok", log |-> <<>>, vals |-> <<>>]
  ELSE LET r == eval(h, Head(args), env, depth)
           c == cons(r.h, r.v, ret)
           rest == ArgsInOrder(c.h, Tail(args), env, depth, c.v)
       IN IF r.err # "ok" THEN [h |-> r.h, err |-> r.err, log |-> r.log, vals |-> <<>>]
          ELSE [h |-> rest.h, err |-> rest.err, log |-> r.log \o rest.log,
                vals |-> <<r.v>> \o rest.vals]

TheHead == Resolve(pre, prog.form, prog.env, MaxDepth, <<>>)

TheArgs == ArgsInOrder(TheHead.h, Tail(FormItems), prog.env, TheHead.depth - 1, nil)

ArgsDone == Len(TheHead.log) + Len(TheArgs.log)

Applied == Evaluated /\ prog.kind = "app" /\ TheHead.ok

(* The entry of the application itself, when the evaluation got that far. *)
Reached == Applied /\ TheArgs.err = "ok" /\ Len(last.log) > ArgsDone

TheCall == last.log[ArgsDone + 1]

(* C4: in an application whose head is a Builtin or Function or resolves   *)
(* to one through the fallback branch, the log holds after the resolution  *)
(* of the head the evaluation of the argument expressions from left to     *)
(* right, each once; when one fails that is the end and the error of the   *)
(* application; otherwise the callable is applied to the list of their     *)
(* values in the order of the expressions (so the cons builtin returns the *)
(* pair of the first and the second).                                      *)
C4_Args ==
  Applied =>
    /\ Len(last.log) >= ArgsDone
    /\ SubSeq(last.log, 1, ArgsDone) = TheHead.log \o TheArgs.log
    /\ TheArgs.err # "ok" => (last.err = TheArgs.err /\ Len(last.log) = ArgsDone)
    /\ (TheArgs.err = "ok" /\ Len(last.log) = ArgsDone) => last.err # "ok"
    /\ Reached =>
         /\ TheCall.k \in {"apply", "call"}
         /\ TheCall.exp = TheHead.fn
         /\ elems(heap, TheCall.vals) = TheArgs.vals
         /\ (TheCall.k = "apply" /\ builtin_fun(pre, TheHead.fn).v = fn_cons
             /\ Len(TheArgs.vals) = 2) =>
              /\ last.err = "ok"
              /\ heap[last.ret.i] = [a |-> TheArgs.vals[1], b |-> TheArgs.vals[2]]

(* An application whose head is resolved through the fallback branch twice *)
(* and whose two arguments have different values.                           *)
C4_Witness ==
  /\ Reached /\ last.err = "ok"
  /\ Len(TheHead.log) >= 5
  /\ Len(TheArgs.vals) = 2 /\ TheArgs.vals[1] # TheArgs.vals[2]

(* The names of the proper part of a parameter structure, and the atom it  *)
(* ends in.                                                                 *)
RECURSIVE ParamList(_, _)
ParamList(h, ps) == IF is_cons(ps) THEN <<h[ps.i].a>> \o ParamList(h, h[ps.i].b) ELSE <<>>

RECURSIVE ParamRest(_, _)
ParamRest(h, ps) == IF is_cons(ps) THEN ParamRest(h, h[ps.i].b) ELSE ps

(* The body forms evaluated one by one, up to the first that fails. *)
RECURSIVE BodyInOrder(_, _, _, _, _)
BodyInOrder(h, body, env, depth, ret) ==
  IF body = <<>> THEN [h |-> h, v |-> ret, err |-> "ok", log |-> <<>>]
  ELSE LET r == eval(h, Head(body), env, depth)
           rest == BodyInOrder(r.h, Tail(body), env, depth, r.v)
       IN IF r.err # "ok" THEN [h |-> r.h, v |-> nil, err |-> r.err, log |-> r.log]
          ELSE [h |-> rest.h, v |-> rest.v, err |-> rest.err, log |-> r.log \o rest.log]

Called == Reached /\ TheCall.k = "call"

Params == function_args(pre, TheHead.fn).v

Captured == function_env(pre, TheHead.fn).v

TheBody ==
  BodyInOrder(TheCall.h, elems(pre, function_body(pre, TheHead.fn).v), TheCall.env,
              TheHead.depth - 1, nil)

(* The frames that were there before the evaluation. *)
OldFrames == {envs[k] : k \in 1..Len(envs)}

(* C5: a Function is applied in a fresh frame whose outer environment is   *)
(* the captured one and which binds exactly the parameters, each to the    *)
(* value at its position and a rest parameter to the list of the remaining *)
(* values; the body forms are evaluated in that frame, in no environment   *)
(* that reaches the caller's frame; the result is that of the last body    *)
(* form (Nil for an empty body); and no frame of the caller's or of the    *)
(* captured environment has a binding added, removed or changed.           *)
C5_Call ==
  Called =>
    /\ TheCall.env.i > Len(pre)
    /\ TheCall.h[TheCall.env.i].b = Captured
    /\ \A k \in 1..Len(ParamList(pre, Params)) :
         /\ BoundLocally(TheCall.h, TheCall.env, ParamList(pre, Params)[k])
         /\ Outcome(env_get(TheCall.h, TheCall.env, ParamList(pre, Params)[k]))
              = <<"ok", TheArgs.vals[k]>>
    /\ ~is_nil(ParamRest(pre, Params)) =>
         elems(TheCall.h, env_get(TheCall.h, TheCall.env, ParamRest(pre, Params)).v)
           = SubSeq(TheArgs.vals, Len(ParamList(pre, Params)) + 1, Len(TheArgs.vals))
    /\ Len(Bindings(TheCall.h, TheCall.env))
         = Len(ParamList(pre, Params)) + (IF is_nil(ParamRest(pre, Params)) THEN 0 ELSE 1)
    /\ last.log = TheHead.log \o TheArgs.log \o <<TheCall>> \o TheBody.log
    /\ <<last.err, last.ret>> = <<TheBody.err, TheBody.v>>
    /\ \A k \in (ArgsDone + 2)..Len(last.log) :
         (last.log[k].k = "eval" /\ is_cons(prog.env)) =>
           \A j \in 1..Len(Chain(heap, last.log[k].env)) :
             Chain(heap, last.log[k].env)[j] # prog.env
    /\ \A e \in OldFrames : Bindings(heap, e) = Bindings(pre, e)

(* A function applied from the caller's environment, whose body returns    *)
(* the value the captured environment gives v, where the caller's          *)
(* environment gives v another value.                                      *)
C5_Witness ==
  /\ Called /\ last.err = "ok"
  /\ is_cons(prog.env)
  /\ Outcome(env_get(pre, Captured, sym_v)) = <<"ok", last.ret>>
  /\ Outcome(env_get(pre, prog.env, sym_v)) \in {<<"ok", y>> : y \in {sym_x, sym_y} \ {last.ret}}
  /\ Len(TheBody.log) >= 2

====
